---- MODULE Spec2Model ----
(***************************************************************************)
(* Focus handling of freya's accessibility integration.                    *)
(*                                                                         *)
(* Two implementations of the same responsibility exist in the source:     *)
(*   - the concrete AccessibilityState of the renderer                     *)
(*     (renderer/src/accessibility.rs, driven by renderer/src/app.rs);     *)
(*   - the trait AccessibilityProvider of the core crate                   *)
(*     (core/src/accessibility.rs), whose provided methods work on the     *)
(*     implementor's node list and focus through nodes(), focus_id(),      *)
(*     set_focus() and push_node().                                        *)
(* An application is built on one of them; `impl` says which one owns the  *)
(* node list, the focus and the watch channel of a behaviour.              *)
(***************************************************************************)
EXTENDS Integers, Sequences, FiniteSets, TLC

\* ------------------------------------------------------------------ bounds
\* Longest node list the model builds.
MaxNodes == 3
\* Number of distinct accessibility ids handed out to render-tree nodes.
NumIds == 3
\* Most focus requests waiting for App::set_accessibility_focus at a time.
MaxMsgs == 1
\* Most values sent on the watch channel between two runs of the listener.
MaxUnseen == 2
\* Number of places for element nodes in the render tree (the RealDom).
NumSlots == 1
\* Number of render-tree nodes that DOM events are emitted for.
NumEventNodes == 2
\* Largest device scale factor.
MaxScale == 2
\* Number of nodes of the render tree of a projection pass.
TreeSize == 3
\* Number of render-tree nodes whose LayoutState is followed.
NumLayoutNodes == 1
\* Most requests (focus, unfocus, navigation) made, one at a time, before the
\* application and the user leave the focus alone.
MaxRequests == 2

\* ------------------------------------------------------- program constants
\* Option<AccessibilityId>::None.  AccessibilityId wraps a NonZeroU128, so 0
\* is the one value no id takes.
None == 0
\* const WINDOW_ID: AccessibilityId = AccessibilityId(NonZeroU128(1))
WINDOW_ID == 1

\* Ids that Uuid-generated accessibility ids take in the model.
Ids == (WINDOW_ID + 1)..(WINDOW_ID + NumIds)
OptIds == Ids \cup {None}

Direction == {"Forward", "Backward"}

VARIABLES
    impl,      \* which implementation the application is built on
    nodes,     \* nodes: Vec<(AccessibilityId, Node)>, the ids in list order
    focus,     \* focus: Option<AccessibilityId>
    channel,   \* value held by the watch channel behind focus_sender
    update,    \* what the last call handed to the platform adapter
    last,      \* the last call: its name, argument and the focus before it
    trail      \* the navigation calls made since the last other call

\* The application side of the focus synchronisation (the component
\* AccessibilityFocusProvider and the UseAccessibility handles).
VARIABLES
    shared,    \* UseSharedState<Option<FocusId>>, the application's focused id
    dep,       \* the dependency value the focus effect last ran with
    msgs,      \* focus requests on their way to App::set_accessibility_focus
    unseen,    \* values sent on the watch channel the listener has not seen
    committed  \* the focus the latest navigation sent on the channel

\* The render tree and the Accessibility state of its nodes.
VARIABLES
    rdom,      \* per place: the element's tag, attributes and Accessibility state
    upd        \* the latest run of Accessibility::update: ids before and after

\* The main thread's position in a frame's rebuild of the node list.
VARIABLES
    pass       \* pc, the list before the clear, the tree of the pass, what is left to add

\* A comparison of two DOM events.
VARIABLES
    ev         \* the events a and b, the Ordering of a.cmp(b), the order the
               \* batch <<a, b>> was dispatched in, the classification of a

\* One call of DomEvent::new.
VARIABLES
    made       \* the arguments of the call and the event it returned

\* One projection pass over a render tree.
VARIABLES
    rtree,     \* the render tree of the pass, in layer order
    proj       \* how the pass ended and the accessibility nodes it added

\* The LayoutState of the render tree's nodes.
VARIABLES
    lstate,    \* per node: its LayoutState component (self)
    view,      \* per node: the NodeView its latest update ran with
    context,   \* the SendAnyMap: the nodes Torin holds invalidated, the scale factor
    lcall      \* the latest run of LayoutState::update and what it returned

\* The application and the user, who in the end leave the focus alone.
VARIABLES
    quota      \* the requests still to be made and the kind of the latest one

\* The mutex of the shared accessibility state (SharedAccessibilityState).
VARIABLES
    lk         \* the thread holding it, where the main thread and the adapter's
               \* thread are, whether the adapter still holds the source closure

\* The two implementations side by side, given the same calls.
VARIABLES
    duo        \* the node list, each implementation's focus, the update each
               \* handed over at the latest call, the focus each adapter holds

focusVars == <<impl, nodes, focus, channel, update, last, trail>>
syncVars == <<shared, dep, msgs, unseen, committed>>
\* What the handlers of the accessibility state leave alone.
domVars == <<rdom, upd>>
concVars == <<pass>>
evVars == <<ev>>
newVars == <<made>>
treeVars == <<rtree, proj>>
layVars == <<lstate, view, context, lcall>>
lateVars == <<layVars, duo, quota, lk>>
others == <<syncVars, domVars, concVars, evVars, newVars, treeVars, lateVars>>
vars == <<focusVars, others>>

\* ------------------------------------------------------------ TreeUpdate
\* No TreeUpdate was produced (Option<TreeUpdate>::None, or no adapter call).
NoUpdate == [kind |-> "NoUpdate", nodes |-> <<>>, focus |-> None]
\* TreeUpdate { nodes: Vec::new(), tree: None, focus }
FocusUpdate(f) == [kind |-> "FocusOnly", nodes |-> <<>>, focus |-> f]
\* TreeUpdate { nodes, tree: Some(Tree::new(root)), focus }
FullUpdate(ns, f) == [kind |-> "Full", nodes |-> ns, focus |-> f]

\* ---------------------------------------------------------- list helpers
Range(s) == {s[i] : i \in 1..Len(s)}

RECURSIVE Reverse(_)
Reverse(s) == IF s = <<>> THEN <<>> ELSE Append(Reverse(Tail(s)), Head(s))

\* iter().first() / nodes().next(): the first id, None on an empty list.
First(s) == IF s = <<>> THEN None ELSE s[1]
\* iter().last(): the last id, None on an empty list.
Last(s) == IF s = <<>> THEN None ELSE s[Len(s)]

\* iter().enumerate().find(|(_, node)| node.0 == id): the 0-based index of
\* the first entry holding id, -1 when no entry holds it.
FindIndex(s, id) ==
    LET hits == {i \in 0..(Len(s) - 1) : s[i + 1] = id}
    IN  IF hits = {} THEN -1 ELSE CHOOSE i \in hits : \A j \in hits : i <= j

\* iter().enumerate().find(|(i, _)| *i == at): the entry at 0-based index at,
\* None when the list has no such index.
EntryAt(s, at) == IF at >= 0 /\ at < Len(s) THEN s[at + 1] ELSE None

\* iter().enumerate().find(..) over the entries whose 0-based indexes are
\* hits: the first of them, None when there is none.
FirstAmong(s, hits) ==
    IF hits = {} THEN None
    ELSE s[(CHOOSE i \in hits : \A j \in hits : i <= j) + 1]

\* As Watch_send, with a value the receiver has not seen yet kept in place
\* of the new one.
Watch_send_kept(cur, v) == IF unseen > 0 THEN cur ELSE v

\* focus_sender.send(value) on the tokio watch channel: the single slot takes
\* the value sent.
Watch_send(cur, v) == v

\* ------------------------------------- AccessibilityState (renderer crate)
\* As State_clear, with the list left as it is.
State_clear_kept(ns) == ns

\* AccessibilityState::clear: self.nodes.clear()
State_clear(ns) == <<>>

\* AccessibilityState::add_element: self.nodes.push((accessibility_id, node))
State_add_element(ns, accessibility_id) == Append(ns, accessibility_id)

\* App::process_accessibility: every node of the layers that carries an
\* accessibility id is added, in layer order, to the list as it stands.
RECURSIVE State_process_accessibility(_, _)
State_process_accessibility(ns, tree) ==
    IF tree = <<>> THEN ns
    ELSE State_process_accessibility(State_add_element(ns, Head(tree)), Tail(tree))

\* AccessibilityState::get_nodes: the list, reversed.
State_get_nodes(ns) == Reverse(ns)

\* As State_process_focus, with the snapshot reporting the stored focus
\* without looking it up in the list.
State_process_focus_unfiltered(ns, f) == f

\* The find_map of AccessibilityState::process: the id of the first entry
\* equal to the stored focus, None when there is none.
State_process_focus(ns, f) == EntryAt(ns, FindIndex(ns, f))

\* AccessibilityState::process: the root followed by get_nodes().
State_process(ns, f) ==
    FullUpdate(<<WINDOW_ID>> \o State_get_nodes(ns), State_process_focus(ns, f))

\* As State_set_focus, without the check that the node exists.
State_set_focus_unchecked(ns, f, id) ==
    [focus |-> id, update |-> FocusUpdate(id), send |-> FALSE]

\* AccessibilityState::set_focus: the focus is stored first; the adapter is
\* updated only when an entry of the list holds the id.
State_set_focus(ns, f, id) ==
    LET node_focused_exists == \E i \in 1..Len(ns) : ns[i] = id
    IN  [focus  |-> id,
         update |-> IF node_focused_exists THEN FocusUpdate(id) ELSE NoUpdate,
         send   |-> FALSE]

\* As State_target, with the Forward fallback taking the first entry instead
\* of the last.
State_target_first(ns, node_index, direction) ==
    LET target_node ==
            IF direction = "Forward"
            THEN FirstAmong(ns, {i \in 0..(Len(ns) - 1) : i + 1 = node_index})
            ELSE FirstAmong(ns, {i \in 0..(Len(ns) - 1) : i = node_index + 1})
    IN  IF target_node # None THEN target_node ELSE First(ns)

\* The target the concrete state computes once the focused entry is found at
\* node_index: the entry found by the direction's search, else the last
\* (Forward) or the first (Backward) entry.
State_target(ns, node_index, direction) ==
    LET target_node ==
            IF direction = "Forward"
            THEN FirstAmong(ns, {i \in 0..(Len(ns) - 1) : i + 1 = node_index})
            ELSE FirstAmong(ns, {i \in 0..(Len(ns) - 1) : i = node_index + 1})
    IN  IF target_node # None THEN target_node
        ELSE IF direction = "Forward" THEN Last(ns)
        ELSE First(ns)

\* The 0-based index of the entry the direction's search finds once the
\* focused entry is found at node_index, -1 when it finds none (the target
\* is then taken with last() or first(), without an index).
State_target_index(ns, node_index, direction) ==
    LET hits == IF direction = "Forward"
                THEN {i \in 0..(Len(ns) - 1) : i + 1 = node_index}
                ELSE {i \in 0..(Len(ns) - 1) : i = node_index + 1}
    IN  IF hits = {} THEN -1 ELSE CHOOSE i \in hits : \A j \in hits : i <= j

\* As State_set_focus_on_next_node, with the update handed to the adapter
\* and nothing sent on the watch channel.
State_set_focus_on_next_node_unsent(ns, f, direction) ==
    IF f # None
    THEN LET node_index == FindIndex(ns, f)
             new_focus  == IF node_index >= 0
                           THEN State_target(ns, node_index, direction)
                           ELSE First(ns)
         IN  [focus |-> new_focus, update |-> FocusUpdate(new_focus), send |-> FALSE,
              at |-> IF node_index >= 0 THEN State_target_index(ns, node_index, direction) ELSE -1,
              sub_from |-> -1]
    ELSE [focus |-> f, update |-> NoUpdate, send |-> FALSE, at |-> -1, sub_from |-> -1]

\* AccessibilityState::set_focus_on_next_node
State_set_focus_on_next_node(ns, f, direction) ==
    IF f # None
    THEN LET node_index == FindIndex(ns, f)
             new_focus  == IF node_index >= 0
                           THEN State_target(ns, node_index, direction)
                           ELSE First(ns)
         IN  [focus |-> new_focus, update |-> FocusUpdate(new_focus), send |-> TRUE,
              at |-> IF node_index >= 0 THEN State_target_index(ns, node_index, direction) ELSE -1,
              sub_from |-> -1]
    ELSE [focus |-> f, update |-> NoUpdate, send |-> FALSE, at |-> -1, sub_from |-> -1]

\* ---------------------------------------- AccessibilityProvider (core crate)
\* AccessibilityProvider::push_node, as add_node calls it.
Provider_push_node(ns, id) == Append(ns, id)

\* process_accessibility of the core crate: add_node for every node of the
\* layers that carries an id.
RECURSIVE Provider_process_accessibility(_, _)
Provider_process_accessibility(ns, tree) ==
    IF tree = <<>> THEN ns
    ELSE Provider_process_accessibility(Provider_push_node(ns, Head(tree)), Tail(tree))

\* The find_map of AccessibilityProvider::process.
Provider_process_focus(ns, f) == EntryAt(ns, FindIndex(ns, f))

\* AccessibilityProvider::process: root and nodes, then the whole reversed.
Provider_process(ns, f, root_id) ==
    FullUpdate(Reverse(<<root_id>> \o ns), Provider_process_focus(ns, f))

\* AccessibilityProvider::set_focus_with_update
Provider_set_focus_with_update(ns, f, new_focus_id) ==
    LET node_focused_exists ==
            \E i \in 1..Len(ns) : new_focus_id # None /\ ns[i] = new_focus_id
    IN  [focus  |-> new_focus_id,
         update |-> IF node_focused_exists THEN FocusUpdate(new_focus_id) ELSE NoUpdate,
         send   |-> FALSE]

\* As Provider_target_index, without the wraparound at either end.
Provider_target_index_clamped(ns, node_index, direction) ==
    IF direction = "Forward"
    THEN IF node_index = Len(ns) - 1 THEN node_index ELSE node_index + 1
    ELSE IF node_index = 0 THEN node_index ELSE node_index - 1

\* The index the provider targets once the focused entry is found.
Provider_target_index(ns, node_index, direction) ==
    IF direction = "Forward"
    THEN IF node_index = Len(ns) - 1 THEN 0 ELSE node_index + 1
    ELSE IF node_index = 0 THEN Len(ns) - 1 ELSE node_index - 1

\* The length self.nodes().len() - 1 is evaluated on once the focused entry
\* is found at node_index, -1 when the call does not evaluate it: Forward
\* compares node_index with it, Backward evaluates it only from index 0.
Provider_sub_from(ns, node_index, direction) ==
    IF direction = "Forward" \/ node_index = 0 THEN Len(ns) ELSE -1

\* As Provider_set_focus_on_next_node, with a focus that no entry holds left
\* where it is.
Provider_set_focus_on_next_node_stale(ns, f, direction) ==
    IF f # None
    THEN LET node_index == FindIndex(ns, f)
             new_focus  == IF node_index >= 0
                           THEN EntryAt(ns, Provider_target_index(ns, node_index, direction))
                           ELSE f
         IN  [focus |-> new_focus, update |-> FocusUpdate(new_focus), send |-> TRUE,
              at |-> IF node_index >= 0
                     THEN Provider_target_index(ns, node_index, direction) ELSE -1,
              sub_from |-> IF node_index >= 0
                           THEN Provider_sub_from(ns, node_index, direction) ELSE -1]
    ELSE [focus |-> f, update |-> NoUpdate, send |-> FALSE, at |-> -1, sub_from |-> -1]

\* AccessibilityProvider::set_focus_on_next_node
Provider_set_focus_on_next_node(ns, f, direction) ==
    IF f # None
    THEN LET node_index == FindIndex(ns, f)
             new_focus  == IF node_index >= 0
                           THEN EntryAt(ns, Provider_target_index(ns, node_index, direction))
                           ELSE First(ns)
         IN  [focus |-> new_focus, update |-> FocusUpdate(new_focus), send |-> TRUE,
              at |-> IF node_index >= 0
                     THEN Provider_target_index(ns, node_index, direction) ELSE -1,
              sub_from |-> IF node_index >= 0
                           THEN Provider_sub_from(ns, node_index, direction) ELSE -1]
    ELSE [focus |-> f, update |-> NoUpdate, send |-> FALSE, at |-> -1, sub_from |-> -1]

\* The implementor's reset of its node list before a pass (the trait leaves
\* it to the implementor).
Provider_clear(ns) == <<>>

\* ------------------------------------------------------------ environment
\* The accessibility ids of the render tree's nodes, in layer order: every
\* node has its own id.
Trees ==
    {t \in UNION {[1..n -> Ids] : n \in 0..MaxNodes} :
        \A i, j \in 1..Len(t) : i # j => t[i] # t[j]}

\* ------------------------------------ Accessibility state of the elements
Slots == 1..NumSlots

\* Element tags, values of the "accessibility" attribute (absent, a
\* CustomAttributeValues::Role, or another value) and of the "focusable"
\* attribute (absent, a bool, or another value).
Tags == {"label", "image", "rect"}
RoleValues == {"Button"}
AccessibilityAttr == {"absent", "other"} \cup RoleValues
FocusableAttr == {"absent", "true", "false", "other"}

\* Accessibility::default()
Accessibility_default == [role |-> "None", id |-> None, focusable |-> FALSE]

\* Accessibility::update for an element with the given tag and attributes;
\* fresh is the value new_accessibility_id() returns when it is called.
\* The result is the new state and whether it differs from the old one.
Accessibility_update(self, tag, acc, foc, fresh) ==
    LET role == IF acc \in RoleValues THEN acc
                ELSE IF acc = "other" /\ tag \in {"text", "label"} THEN "Text"
                ELSE IF acc = "other" /\ tag = "image" THEN "Image"
                ELSE "None"
        state == [role |-> role,
                  id |-> IF role # "None" THEN fresh ELSE None,
                  focusable |-> (foc = "true")]
    IN  [state |-> state, changed |-> state # self]

\* No element at a place of the render tree.
NoNode == [tag |-> "", acc |-> "absent", foc |-> "absent", state |-> Accessibility_default]

\* Accessibility::update has not run yet.
NoRun == [op |-> "none", slot |-> 0, old |-> None, new |-> None, same |-> FALSE]

\* What new_accessibility_id() can return: a random UUID, here an id no
\* element holds (a collision of two random 128-bit values is left out).
FreshIds == Ids \ {rdom[s].state.id : s \in Slots}

\* ------------------------------------------------------------ DOM events
\* Event names: the leave family, the names that move the cursor, and others.
EventNames ==
    {"mouseleave", "pointerleave", "mouseover", "mouseenter", "pointerover",
     "pointerenter", "click"}

\* DomEvent, with the fields name and node_id.
DomEvents == [name : EventNames, node_id : 1..NumEventNodes]

\* As DomEvent_cmp, with the two leave names taken for equal.
DomEvent_cmp_family(a, b) ==
    IF a.name \in {"mouseleave", "pointerleave"}
    THEN IF b.name \in {"mouseleave", "pointerleave"} THEN "Equal" ELSE "Less"
    ELSE "Greater"

\* <DomEvent as Ord>::cmp
DomEvent_cmp(a, b) ==
    IF a.name \in {"mouseleave", "pointerleave"}
    THEN IF a.name = b.name THEN "Equal" ELSE "Less"
    ELSE "Greater"

\* #[derive(PartialEq)] on DomEvent: every field is equal.
DomEvent_eq(a, b) == a.name = b.name /\ a.node_id = b.node_id

\* Ordering::reverse
Ordering_reverse(o) ==
    CASE o = "Less" -> "Greater"
      [] o = "Greater" -> "Less"
      [] OTHER -> o

\* No event.
NoEvent == [name |-> "", node_id |-> 0]

\* As DomEvent_can_change_element_hover_state, without pointerenter.
DomEvent_can_change_element_hover_state_short(e) ==
    e.name \in {"mouseover", "mouseenter", "pointerover"}

\* DomEvent::can_change_element_hover_state
DomEvent_can_change_element_hover_state(e) ==
    e.name \in {"mouseover", "mouseenter", "pointerover", "pointerenter"}

\* does_event_move_cursor
does_event_move_cursor(event_name) ==
    event_name \in {"pointerover", "pointerenter", "mouseover", "mouseenter"}

\* DomEvent::does_move_cursor
DomEvent_does_move_cursor(e) == does_event_move_cursor(e.name)

\* Event a not classified.
NoClass == [run |-> FALSE, hover |-> FALSE, moves |-> FALSE, by_name |-> FALSE]

\* The batch of DOM events put in the order of DomEvent's comparison, for a
\* batch of two: the second event goes first when it is Less than the first.
sort_events(batch) ==
    IF Len(batch) = 2 /\ DomEvent_cmp(batch[2], batch[1]) = "Less"
    THEN <<batch[2], batch[1]>>
    ELSE batch

\* DomEvent::new not called, no pass made.
NoCall == [kind |-> "none"]
NoPass == [status |-> "none", nodes |-> <<>>, root |-> <<>>, snap |-> FALSE]

\* ----------------------------------------------------------- DomEvent::new
\* Exact fractions <<numerator, denominator>> in lowest terms stand for the
\* f64 coordinates.
RECURSIVE Gcd(_, _)
Gcd(a, b) == IF b = 0 THEN a ELSE Gcd(b, a % b)
Abs(n) == IF n < 0 THEN -n ELSE n
Frac(n, d) ==
    LET g == Gcd(Abs(n), d)
    IN  IF n = 0 THEN <<0, 1>> ELSE <<n \div g, d \div g>>
FracSub(q, r) == Frac(q[1] * r[2] - r[1] * q[2], q[2] * r[2])
FracDiv(q, k) == Frac(q[1], q[2] * k)

\* Cursor / touch positions in device pixels and top-left corners of node
\* areas.
Points == {<<0, 0>>, <<20, 10>>, <<30, 5>>, <<120, 80>>}
NoArea == <<>>
ScaleFactors == 1..MaxScale

\* node_area.unwrap_or_default().min_x() / min_y()
Area_min(node_area) == IF node_area = NoArea THEN <<0, 0>> ELSE node_area

\* The arguments of DomEvent::new: the PotentialEvent (node_id, layer and
\* the FreyaEvent with its kind, name, position and what is_pointer_event()
\* and does_bubble() say of it), element_id, node_area and scale_factor.
NewArgs ==
    [node_id : 1..NumEventNodes, layer : {None, 1}, element_id : {1, 2},
     kind : {"Mouse", "Touch", "Wheel", "Keyboard"}, name : {"click", "pointerdown"},
     is_pointer : BOOLEAN, bubbles : BOOLEAN,
     at : Points, node_area : Points \cup {NoArea}, scale_factor : ScaleFactors]

\* As mouse_element, the bounds subtracted from the screen coordinate as
\* they are.
mouse_element_unscaled(c, m, scale_factor) ==
    FracSub(FracDiv(<<c, 1>>, scale_factor), <<m, 1>>)

\* One element-local coordinate of a mouse event:
\* (cursor.x - node_area.min_x()) / scale_factor
mouse_element(c, m, scale_factor) == FracDiv(FracSub(<<c, 1>>, <<m, 1>>), scale_factor)

\* As touch_element, the bounds left out.
touch_element_from_origin(c, m) == <<c, 1>>

\* One element-local coordinate of a touch event: location.x - node_area.min_x()
touch_element(c, m) == FracSub(<<c, 1>>, <<m, 1>>)

\* As data_shape, the pointer classification ignored.
data_shape_raw(kind, is_pointer_event) == kind

\* The DomEventData variant built for a mouse or touch event.
data_shape(kind, is_pointer_event) == IF is_pointer_event THEN "Pointer" ELSE kind

\* DomEvent::new
DomEvent_new(a) ==
    LET m == Area_min(a.node_area)
        data ==
            IF a.kind = "Mouse"
            THEN [shape |-> data_shape("Mouse", a.is_pointer),
                  screen |-> <<FracDiv(<<a.at[1], 1>>, a.scale_factor),
                               FracDiv(<<a.at[2], 1>>, a.scale_factor)>>,
                  element |-> <<mouse_element(a.at[1], m[1], a.scale_factor),
                                mouse_element(a.at[2], m[2], a.scale_factor)>>]
            ELSE IF a.kind = "Touch"
            THEN [shape |-> data_shape("Touch", a.is_pointer),
                  screen |-> <<<<a.at[1], 1>>, <<a.at[2], 1>>>>,
                  element |-> <<touch_element(a.at[1], m[1]), touch_element(a.at[2], m[2])>>]
            ELSE [shape |-> a.kind, screen |-> <<>>, element |-> <<>>]
    IN  [kind |-> "DomEvent", name |-> a.name, node_id |-> a.node_id,
         element_id |-> a.element_id, data |-> data, bubbles |-> a.bubbles,
         layer |-> a.layer]

\* ------------------------------------------------- the projection pass
\* The nodes of a render tree: a text node, an element without accessibility
\* id, or an element with one (plain, flagged focusable, or with an alt
\* text). The node in place i of the layer order has the id WINDOW_ID + i.
NodeKinds == {"text", "plain", "acc", "acc_focusable", "acc_alt"}
HasId(kind) == kind \in {"acc", "acc_focusable", "acc_alt"}
IdOf(i) == WINDOW_ID + i

\* The render trees of TreeSize nodes in layer order: every node is
\* top-level (parent 0) or the child of an earlier element. At most one node
\* of the layer index is gone from the render tree, or without layout entry.
RenderTrees ==
    {t \in [ns : [1..TreeSize -> [parent : 0..(TreeSize - 1), kind : NodeKinds]],
            gone : 0..TreeSize, unmeasured : 0..TreeSize] :
        /\ t.gone = 0 \/ t.unmeasured = 0
        /\ \A i \in 1..TreeSize :
              /\ t.ns[i].parent < i
              /\ t.ns[i].parent # 0 => t.ns[t.ns[i].parent].kind # "text"}

\* rdom.get(node_id) is Some
InDom(t, i) == i # t.gone

\* dioxus_node.children(): the places of the children of node i, in order.
RECURSIVE ChildrenFrom(_, _, _)
ChildrenFrom(t, i, j) ==
    IF j > Len(t.ns) THEN <<>>
    ELSE IF t.ns[j].parent = i /\ InDom(t, j)
         THEN <<j>> \o ChildrenFrom(t, i, j + 1)
         ELSE ChildrenFrom(t, i, j + 1)
Children(t, i) == ChildrenFrom(t, i, 1)

\* As get_accessibility_children, a child without id standing in with the
\* ids of its own children.
RECURSIVE get_accessibility_children_deep(_, _)
get_accessibility_children_deep(t, kids) ==
    IF kids = <<>> THEN <<>>
    ELSE (IF HasId(t.ns[Head(kids)].kind)
          THEN <<IdOf(Head(kids))>>
          ELSE get_accessibility_children_deep(t, Children(t, Head(kids))))
         \o get_accessibility_children_deep(t, Tail(kids))

\* NodeAccessibility::get_accessibility_children /
\* get_accessible_children, over the children kids of a node: filter_map on
\* the child's accessibility id.
RECURSIVE get_accessibility_children(_, _)
get_accessibility_children(t, kids) ==
    IF kids = <<>> THEN <<>>
    ELSE (IF HasId(t.ns[Head(kids)].kind) THEN <<IdOf(Head(kids))>> ELSE <<>>)
         \o get_accessibility_children(t, Tail(kids))

\* A projected value: none, the alt text of a node, or the text of the text
\* node in place at.
NoValue == [from |-> "none", at |-> 0]

\* NodeAccessibility::get_inner_texts: the text of the first child when it
\* is a text node.
get_inner_texts(t, i) ==
    LET kids == Children(t, i)
    IN  IF kids # <<>> /\ t.ns[Head(kids)].kind = "text"
        THEN [from |-> "text", at |-> Head(kids)]
        ELSE NoValue

\* AccessibilityState::add_element: the node built for the element in place i.
State_build_node(t, i) ==
    [id |-> IdOf(i),
     children |-> get_accessibility_children(t, Children(t, i)),
     value |-> IF t.ns[i].kind = "acc_alt" THEN [from |-> "alt", at |-> i]
               ELSE get_inner_texts(t, i),
     actions |-> {"Default"},
     verb |-> "Click"]

\* AccessibilityProvider::add_node: the node built for the element in place i.
Provider_build_node(t, i) ==
    [id |-> IdOf(i),
     children |-> get_accessibility_children(t, Children(t, i)),
     value |-> NoValue,
     actions |-> IF t.ns[i].kind = "acc_focusable" THEN {"Focus"} ELSE {"Default"},
     verb |-> IF t.ns[i].kind = "acc_focusable" THEN "" ELSE "Click"]

\* App::process_accessibility / process_accessibility from the entry in
\* place i of the layer index on, with the nodes added so far:
\* layout.get(node_id).unwrap() panics for an entry without layout, an entry
\* gone from the render tree or without accessibility id is passed over.
RECURSIVE Project_from(_, _, _, _)
Project_from(which, t, i, acc) ==
    IF i > Len(t.ns) THEN [status |-> "ok", nodes |-> acc]
    ELSE IF i = t.unmeasured THEN [status |-> "panic", nodes |-> acc]
    ELSE IF ~InDom(t, i) \/ ~HasId(t.ns[i].kind) THEN Project_from(which, t, i + 1, acc)
    ELSE Project_from(which, t, i + 1,
            Append(acc, IF which = "AccessibilityState"
                        THEN State_build_node(t, i)
                        ELSE Provider_build_node(t, i)))

\* build_root: the children of the synthetic root.
build_root(ns) == [k \in 1..Len(ns) |-> ns[k].id]

\* ------------------------------------------------------------ LayoutState
\* NodeId::default(), the id LayoutState::default() holds; no node of the
\* render tree has it.
NodeId_default == 0
LayoutNodeIds == 1..NumLayoutNodes

\* An attribute the element does not carry.
Absent == ""
\* f32 values: a number or NaN.
F32(n) == <<"num", n>>
NaN == <<"nan", 0>>
\* a != b on f32: NaN differs from every value, itself included.
F32_ne(a, b) == a = NaN \/ b = NaN \/ a # b
F32_mul(a, k) == IF a = NaN THEN NaN ELSE F32(a[2] * k)
\* value.parse::<f32>(): "NaN" parses, to NaN.
F32_parse(value) ==
    CASE value = "10" -> [ok |-> TRUE, v |-> F32(10)]
      [] value = "NaN" -> [ok |-> TRUE, v |-> NaN]
      [] OTHER -> [ok |-> FALSE, v |-> F32(0)]

\* Size::default()
Size_default == <<"Inner", 0>>
\* Size::parse(value, Some(scale_factor)): pixels are scaled, a percentage
\* is not, any other text is an error.
Size_parse(value, scale_factor) ==
    CASE value = "100" -> [ok |-> TRUE, v |-> <<"Pixels", 100 * scale_factor>>]
      [] value = "50%" -> [ok |-> TRUE, v |-> <<"Percentage", 50>>]
      [] OTHER -> [ok |-> FALSE, v |-> Size_default]

\* The views of a node that update() reads: its tag and the attributes
\* width, direction and scroll_y.  height, the minimum and maximum sizes and padding are
\* parsed and compared as width is, scroll_x as scroll_y is.
NodeViews ==
    [tag : {"rect", "label"}, width : {Absent, "100", "x"},
     direction : {Absent, "horizontal", "both"}, scroll_y : {Absent, "10", "NaN"}]
NoView == [tag |-> "", width |-> Absent, direction |-> Absent, scroll_y |-> Absent]

\* LayoutState::default()
LayoutState_default ==
    [width |-> Size_default, direction |-> "Vertical", node_id |-> NodeId_default, scroll_y |-> F32(0)]

\* The LayoutState that update() builds from the node's view: it starts from
\* the default and assigns the fields whose attribute parses.  node_id is
\* never assigned.
LayoutState_built(node_view, scale_factor) ==
    LET width == Size_parse(node_view.width, scale_factor)
        scroll == F32_parse(node_view.scroll_y)
        by_tag == IF node_view.tag \in {"label", "paragraph", "text"}
                  THEN "Horizontal" ELSE "Vertical"
    IN  [LayoutState_default EXCEPT
            !.direction = CASE node_view.direction = Absent -> by_tag
                            [] node_view.direction = "horizontal" -> "Horizontal"
                            [] node_view.direction = "both" -> "Both"
                            [] OTHER -> "Vertical",
            !.width = IF node_view.width # Absent /\ width.ok THEN width.v ELSE @,
            !.scroll_y = IF node_view.scroll_y # Absent /\ scroll.ok
                         THEN F32_mul(scroll.v, scale_factor) ELSE @]

\* LayoutState::update: the new component and the value returned.
LayoutState_update(self, node_view, node_id, scale_factor) ==
    LET layout == LayoutState_built(node_view, scale_factor)
        changed == \/ layout.width # self.width
                   \/ node_id # self.node_id
                   \/ layout.direction # self.direction
                   \/ F32_ne(layout.scroll_y, self.scroll_y)
    IN  [self |-> layout, changed |-> changed]

NoLayoutCall ==
    [kind |-> "none", node |-> NodeId_default, view |-> NoView,
     changed |-> FALSE, invalidated |-> FALSE, repeat |-> FALSE]

\* ------------------------------------------------------ platform adapter
\* adapter.update(tree_update): the focus the adapter holds after it.  A call
\* that hands the adapter nothing leaves the focus it holds.
Adapter_update(held, tree_update) ==
    IF tree_update.kind = "NoUpdate" THEN held ELSE tree_update.focus

\* ------------------------------------------------------ call bookkeeping
\* The record of a call: its name, its id argument (None when it has none),
\* its direction ("" when it has none) and the focus stored before it.
\* n counts what the call passed on: the values a navigation sent on the
\* watch channel, the values a run of the listener found unseen.
\* at is the 0-based index a navigation computed for its target and sub_from
\* the length it evaluated len() - 1 on, each -1 when the call computed none.
Call(op, id, dir) ==
    [op |-> op, id |-> id, dir |-> dir, before |-> focus, n |-> 0, at |-> -1, sub_from |-> -1]

\* The navigation calls made in a row, the latest MaxNodes + 1 of them.
MaxTrail == MaxNodes + 1
Push(t, step) == IF Len(t) < MaxTrail THEN Append(t, step) ELSE Append(Tail(t), step)

\* AccessibilityState::new() and watch::channel(None): no focus, nothing
\* sent, no call made yet.
FocusStart ==
    /\ focus = None
    /\ channel = None
    /\ update = NoUpdate
    /\ last = [op |-> "new", id |-> None, dir |-> "", before |-> None, n |-> 0,
               at |-> -1, sub_from |-> -1]
    /\ trail = <<>>

\* The application's side at its first render: nothing focused, nothing on
\* its way.
SyncStart ==
    /\ shared = None
    /\ dep = None
    /\ msgs = <<>>
    /\ unseen = 0
    /\ committed = None

\* The render tree before its first element.
DomStart ==
    /\ rdom = [s \in Slots |-> NoNode]
    /\ upd = NoRun

\* The main thread between two frames, before the first one.
PassStart == pass = [pc |-> "idle", prev |-> <<>>, tree |-> <<>>, left |-> <<>>]

\* No comparison made.
EvStart ==
    ev = [a |-> NoEvent, b |-> NoEvent, ord |-> "none", back |-> "none", eq |-> "none",
          sent |-> <<>>, cls |-> NoClass]

\* DomEvent::new not called.
NewStart == made = [p |-> NoCall, out |-> NoCall]

\* No pass made, no render tree.
TreeStart ==
    /\ rtree = [ns |-> <<>>, gone |-> 0, unmeasured |-> 0]
    /\ proj = NoPass

\* Every node's LayoutState as the render tree creates it, nothing
\* invalidated, no update run.
LayoutStart ==
    /\ lstate = [n \in LayoutNodeIds |-> LayoutState_default]
    /\ view = [n \in LayoutNodeIds |-> NoView]
    /\ context = [torin |-> {}, scale_factor |-> 1]
    /\ lcall = NoLayoutCall

\* Both implementations as constructed: no node, no focus, no update.
DuoStart ==
    duo = [ns |-> <<>>, sf |-> None, pf |-> None, su |-> NoUpdate, pu |-> NoUpdate,
           sa |-> None, pa |-> None, op |-> "new", since |-> "new"]

\* No request to be made, none made.
QuotaStart == quota = [left |-> 0, req |-> "none"]

\* The main thread does nothing.
MainIdle == [pc |-> "idle", op |-> "", id |-> None, dir |-> ""]

\* The mutex free, both threads idle, the adapter created with the closure
\* that gives it its initial tree (Adapter::new), not yet called.
LockStart == lk = [holder |-> "none", main |-> MainIdle, cb |-> "idle", source |-> "held"]

LateStart == LayoutStart /\ DuoStart /\ QuotaStart /\ LockStart

Init ==
    /\ impl \in {"AccessibilityState", "AccessibilityProvider"}
    /\ nodes = <<>>
    /\ FocusStart
    /\ SyncStart
    /\ DomStart
    /\ PassStart
    /\ EvStart
    /\ NewStart
    /\ TreeStart
    /\ LateStart

\* ------------------------------------------------- actions, concrete state
\* App::clear_accessibility
ClearAccessibility ==
    /\ impl = "AccessibilityState"
    /\ nodes' = State_clear(nodes)
    /\ update' = NoUpdate
    /\ last' = Call("clear", None, "")
    /\ trail' = <<>>
    /\ UNCHANGED <<impl, focus, channel>>
    /\ UNCHANGED others

\* App::process_layout, which ends with App::process_accessibility
ProcessLayout(tree) ==
    /\ impl = "AccessibilityState"
    /\ Len(nodes) + Len(tree) <= MaxNodes
    /\ nodes' = State_process_accessibility(nodes, tree)
    /\ update' = NoUpdate
    /\ last' = [Call("process_layout", None, "") EXCEPT !.n = Len(tree)]
    /\ trail' = <<>>
    /\ UNCHANGED <<impl, focus, channel>>
    /\ UNCHANGED others

\* App::set_accessibility_focus
SetAccessibilityFocus(id) ==
    /\ impl = "AccessibilityState"
    /\ LET r == State_set_focus(nodes, focus, id)
       IN  /\ focus' = r.focus
           /\ update' = r.update
    /\ last' = Call("set_focus", id, "")
    /\ trail' = <<>>
    /\ UNCHANGED <<impl, nodes, channel>>
    /\ UNCHANGED others

\* App::focus_next_node
FocusNextNode(direction) ==
    /\ impl = "AccessibilityState"
    /\ LET r == State_set_focus_on_next_node(nodes, focus, direction)
       IN  /\ focus' = r.focus
           /\ update' = r.update
           /\ channel' = IF r.send THEN Watch_send(channel, r.focus) ELSE channel
           /\ trail' = Push(trail, [dir |-> direction, before |-> focus, after |-> r.focus])
           /\ last' = [Call("focus_next", None, direction) EXCEPT
                           !.n = IF r.send THEN 1 ELSE 0,
                           !.at = r.at, !.sub_from = r.sub_from]
    /\ UNCHANGED <<impl, nodes>>
    /\ UNCHANGED others

\* App::render_accessibility: the snapshot is handed to the adapter.
RenderAccessibility ==
    /\ impl = "AccessibilityState"
    /\ update' = State_process(nodes, focus)
    /\ last' = Call("process", None, "")
    /\ trail' = <<>>
    /\ UNCHANGED <<impl, nodes, focus, channel>>
    /\ UNCHANGED others

\* The closure of create_accessibility_adapter: the adapter asks for the
\* initial tree and gets the snapshot.
AdapterCallback ==
    /\ impl = "AccessibilityState"
    /\ update' = State_process(nodes, focus)
    /\ last' = Call("callback", None, "")
    /\ trail' = <<>>
    /\ UNCHANGED <<impl, nodes, focus, channel>>
    /\ UNCHANGED others

\* ------------------------------------------------------ actions, provider
ProviderClear ==
    /\ impl = "AccessibilityProvider"
    /\ nodes' = Provider_clear(nodes)
    /\ update' = NoUpdate
    /\ last' = Call("clear", None, "")
    /\ trail' = <<>>
    /\ UNCHANGED <<impl, focus, channel>>
    /\ UNCHANGED others

\* process_accessibility(layers, layout, rdom, access_provider)
ProviderProcessAccessibility(tree) ==
    /\ impl = "AccessibilityProvider"
    /\ Len(nodes) + Len(tree) <= MaxNodes
    /\ nodes' = Provider_process_accessibility(nodes, tree)
    /\ update' = NoUpdate
    /\ last' = [Call("process_layout", None, "") EXCEPT !.n = Len(tree)]
    /\ trail' = <<>>
    /\ UNCHANGED <<impl, focus, channel>>
    /\ UNCHANGED others

\* set_focus_with_update(new_focus_id); the caller hands the returned update
\* to the adapter.
ProviderSetFocusWithUpdate(new_focus_id) ==
    /\ impl = "AccessibilityProvider"
    /\ LET r == Provider_set_focus_with_update(nodes, focus, new_focus_id)
       IN  /\ focus' = r.focus
           /\ update' = r.update
    /\ last' = Call("set_focus", new_focus_id, "")
    /\ trail' = <<>>
    /\ UNCHANGED <<impl, nodes, channel>>
    /\ UNCHANGED others

\* set_focus_on_next_node(direction, focus_sender)
ProviderSetFocusOnNextNode(direction) ==
    /\ impl = "AccessibilityProvider"
    /\ LET r == Provider_set_focus_on_next_node(nodes, focus, direction)
       IN  /\ focus' = r.focus
           /\ update' = r.update
           /\ channel' = IF r.send THEN Watch_send(channel, r.focus) ELSE channel
           /\ trail' = Push(trail, [dir |-> direction, before |-> focus, after |-> r.focus])
           /\ last' = [Call("focus_next", None, direction) EXCEPT
                           !.n = IF r.send THEN 1 ELSE 0,
                           !.at = r.at, !.sub_from = r.sub_from]
    /\ UNCHANGED <<impl, nodes>>
    /\ UNCHANGED others

\* process(root_id, root_name)
ProviderProcess ==
    /\ impl = "AccessibilityProvider"
    /\ update' = Provider_process(nodes, focus, WINDOW_ID)
    /\ last' = Call("process", None, "")
    /\ trail' = <<>>
    /\ UNCHANGED <<impl, nodes, focus, channel>>
    /\ UNCHANGED others

\* ------------------------------------------------ actions, render tree
\* The render tree after construction: no element yet.
DomInit ==
    /\ impl = "AccessibilityState"
    /\ nodes = <<>>
    /\ FocusStart
    /\ SyncStart
    /\ DomStart
    /\ PassStart
    /\ EvStart
    /\ NewStart
    /\ TreeStart
    /\ LateStart

\* An element is created at place s; its Accessibility state is computed.
DomCreate(s, tag, acc, foc) ==
    /\ rdom[s] = NoNode
    /\ \E fresh \in FreshIds :
          LET r == Accessibility_update(Accessibility_default, tag, acc, foc, fresh)
          IN  /\ rdom' = [rdom EXCEPT ![s] = [tag |-> tag, acc |-> acc, foc |-> foc, state |-> r.state]]
              /\ upd' = [op |-> "create", slot |-> s, old |-> None, new |-> r.state.id, same |-> FALSE]
    /\ UNCHANGED <<focusVars, syncVars, concVars, evVars, newVars, treeVars, lateVars>>

\* An attribute in the node mask ("accessibility", "focusable") of the
\* element at place s changes; Accessibility::update runs again for it.
DomSetAttributes(s, acc, foc) ==
    /\ rdom[s] # NoNode
    /\ <<acc, foc>> # <<rdom[s].acc, rdom[s].foc>>
    /\ \E fresh \in FreshIds :
          LET r == Accessibility_update(rdom[s].state, rdom[s].tag, acc, foc, fresh)
          IN  /\ rdom' = [rdom EXCEPT ![s] = [@ EXCEPT !.acc = acc, !.foc = foc, !.state = r.state]]
              /\ upd' = [op |-> "update", slot |-> s, old |-> rdom[s].state.id,
                         new |-> r.state.id, same |-> (acc = rdom[s].acc)]
    /\ UNCHANGED <<focusVars, syncVars, concVars, evVars, newVars, treeVars, lateVars>>

\* The element at place s is removed from the render tree.
DomRemove(s) ==
    /\ rdom[s] # NoNode
    /\ rdom' = [rdom EXCEPT ![s] = NoNode]
    /\ upd' = [op |-> "remove", slot |-> s, old |-> rdom[s].state.id, new |-> None, same |-> FALSE]
    /\ UNCHANGED <<focusVars, syncVars, concVars, evVars, newVars, treeVars, lateVars>>

DomNext ==
    \/ \E s \in Slots, tag \in Tags, acc \in AccessibilityAttr, foc \in FocusableAttr :
          DomCreate(s, tag, acc, foc)
    \/ \E s \in Slots, acc \in AccessibilityAttr, foc \in FocusableAttr :
          DomSetAttributes(s, acc, foc)
    \/ \E s \in Slots : DomRemove(s)

\* The Accessibility state of the elements over the life of the render tree.
SpecDom == DomInit /\ [][DomNext]_vars

\* --------------------------------- actions, rebuild against the adapter
\* The application after construction, its adapter created.
ConcInit ==
    /\ impl = "AccessibilityState"
    /\ nodes = <<>>
    /\ FocusStart
    /\ SyncStart
    /\ DomStart
    /\ PassStart
    /\ EvStart
    /\ NewStart
    /\ TreeStart
    /\ LateStart

\* The start of a frame whose render tree holds the accessible nodes tree:
\* App::clear_accessibility, one section under the lock of the shared state;
\* App::process_layout then measures the layout without the lock.
ConcClear(tree) ==
    /\ pass.pc = "idle"
    /\ nodes' = State_clear(nodes)
    /\ pass' = [pc |-> IF tree = <<>> THEN "idle" ELSE "adding",
                prev |-> nodes, tree |-> tree, left |-> tree]
    /\ update' = NoUpdate
    /\ last' = Call("clear", None, "")
    /\ UNCHANGED <<impl, focus, channel, trail>>
    /\ UNCHANGED <<syncVars, domVars, evVars, newVars, treeVars, lateVars>>

\* One turn of the loop of App::process_accessibility: the lock is taken,
\* add_element pushes one node, the lock is released.
ConcAddElement ==
    /\ pass.pc = "adding"
    /\ nodes' = State_add_element(nodes, Head(pass.left))
    /\ pass' = [pass EXCEPT !.left = Tail(pass.left),
                            !.pc = IF Tail(pass.left) = <<>> THEN "idle" ELSE "adding"]
    /\ update' = NoUpdate
    /\ last' = Call("add_element", Head(pass.left), "")
    /\ UNCHANGED <<impl, focus, channel, trail>>
    /\ UNCHANGED <<syncVars, domVars, evVars, newVars, treeVars, lateVars>>

\* The adapter's callback, at any point of the frame: it takes the lock and
\* calls process().
ConcAdapterCallback ==
    /\ update' = State_process(nodes, focus)
    /\ last' = Call("callback", None, "")
    /\ UNCHANGED <<impl, nodes, focus, channel, trail>>
    /\ UNCHANGED <<syncVars, domVars, concVars, evVars, newVars, treeVars, lateVars>>

ConcNext ==
    \/ \E tree \in Trees : ConcClear(tree)
    \/ ConcAddElement
    \/ ConcAdapterCallback

\* The main thread's rebuild of the node list against the adapter's callback.
SpecConc == ConcInit /\ [][ConcNext]_vars

\* ------------------------------------------------- actions, DOM events
\* Two events to compare.
CmpInit ==
    /\ impl = "AccessibilityState"
    /\ nodes = <<>>
    /\ FocusStart
    /\ SyncStart
    /\ DomStart
    /\ PassStart
    /\ ev \in [a : DomEvents, b : DomEvents, ord : {"none"}, back : {"none"}, eq : {"none"},
                sent : {<<>>}, cls : {NoClass}]
    /\ NewStart
    /\ TreeStart
    /\ LateStart

\* a.cmp(&b)
Compare ==
    /\ ev.ord = "none"
    /\ ev' = [ev EXCEPT !.ord = DomEvent_cmp(ev.a, ev.b)]
    /\ UNCHANGED <<focusVars, syncVars, domVars, concVars, newVars, treeVars, lateVars>>

\* b.cmp(&a)
CompareBack ==
    /\ ev.back = "none"
    /\ ev' = [ev EXCEPT !.back = DomEvent_cmp(ev.b, ev.a)]
    /\ UNCHANGED <<focusVars, syncVars, domVars, concVars, newVars, treeVars, lateVars>>

\* a == b
Equals ==
    /\ ev.eq = "none"
    /\ ev' = [ev EXCEPT !.eq = IF DomEvent_eq(ev.a, ev.b) THEN "true" ELSE "false"]
    /\ UNCHANGED <<focusVars, syncVars, domVars, concVars, newVars, treeVars, lateVars>>

\* App::process_events for the batch <<a, b>>: the batch is put in order and
\* its events are emitted to the application in that order.
ProcessEvents ==
    /\ ev.sent = <<>>
    /\ ev' = [ev EXCEPT !.sent = sort_events(<<ev.a, ev.b>>)]
    /\ UNCHANGED <<focusVars, syncVars, domVars, concVars, newVars, treeVars, lateVars>>

\* a.can_change_element_hover_state(), a.does_move_cursor() and
\* does_event_move_cursor(a.name)
Classify ==
    /\ ~ev.cls.run
    /\ ev' = [ev EXCEPT !.cls = [run |-> TRUE,
                                 hover |-> DomEvent_can_change_element_hover_state(ev.a),
                                 moves |-> DomEvent_does_move_cursor(ev.a),
                                 by_name |-> does_event_move_cursor(ev.a.name)]]
    /\ UNCHANGED <<focusVars, syncVars, domVars, concVars, newVars, treeVars, lateVars>>

CmpNext ==
    \/ Compare
    \/ CompareBack
    \/ Equals
    \/ ProcessEvents
    \/ Classify

\* The ordering of DOM events.
SpecCmp == CmpInit /\ [][CmpNext]_vars

\* ----------------------------------------------- actions, DomEvent::new
\* The arguments of one call.
NewInit ==
    /\ impl = "AccessibilityState"
    /\ nodes = <<>>
    /\ FocusStart
    /\ SyncStart
    /\ DomStart
    /\ PassStart
    /\ EvStart
    /\ made \in [p : NewArgs, out : {NoCall}]
    /\ TreeStart
    /\ LateStart

\* DomEvent::new(potential_event, element_id, node_area, scale_factor)
New ==
    /\ made.out = NoCall
    /\ made' = [made EXCEPT !.out = DomEvent_new(made.p)]
    /\ UNCHANGED <<focusVars, syncVars, domVars, concVars, evVars, treeVars, lateVars>>

NewNext == New

\* The events DomEvent::new makes.
SpecNew == NewInit /\ [][NewNext]_vars

\* ---------------------------------------------- actions, projection pass
\* A render tree laid out, the node list empty.
TreeInit ==
    /\ impl \in {"AccessibilityState", "AccessibilityProvider"}
    /\ nodes = <<>>
    /\ FocusStart
    /\ SyncStart
    /\ DomStart
    /\ PassStart
    /\ EvStart
    /\ NewStart
    /\ rtree \in RenderTrees
    /\ proj = NoPass
    /\ LateStart

\* App::process_accessibility / process_accessibility over the layer index.
Project ==
    /\ proj.status = "none"
    /\ LET r == Project_from(impl, rtree, 1, <<>>)
       IN  proj' = [status |-> r.status, nodes |-> r.nodes, root |-> <<>>, snap |-> FALSE]
    /\ UNCHANGED <<focusVars, syncVars, domVars, concVars, evVars, newVars, rtree, lateVars>>

\* process(): the snapshot with the synthetic root built by build_root.
TreeProcess ==
    /\ proj.status = "ok"
    /\ ~proj.snap
    /\ proj' = [proj EXCEPT !.root = build_root(proj.nodes), !.snap = TRUE]
    /\ UNCHANGED <<focusVars, syncVars, domVars, concVars, evVars, newVars, rtree, lateVars>>

TreeNext ==
    \/ Project
    \/ TreeProcess

\* One projection pass over a render tree and its snapshot.
SpecTree == TreeInit /\ [][TreeNext]_vars

\* ------------------------------------------------ actions, LayoutState
\* The render tree with the window's scale factor in the context.
LayoutInit ==
    /\ impl = "AccessibilityState"
    /\ nodes = <<>>
    /\ FocusStart
    /\ SyncStart
    /\ DomStart
    /\ PassStart
    /\ EvStart
    /\ NewStart
    /\ TreeStart
    /\ lstate = [n \in LayoutNodeIds |-> LayoutState_default]
    /\ view = [n \in LayoutNodeIds |-> NoView]
    /\ context \in [torin : {{}}, scale_factor : ScaleFactors]
    /\ lcall = NoLayoutCall
    /\ DuoStart
    /\ QuotaStart
    /\ LockStart

\* LayoutState::update of node n, whose view is node_view.
LayoutUpdate(n, node_view) ==
    LET r == LayoutState_update(lstate[n], node_view, n, context.scale_factor)
    IN  /\ context' = IF r.changed
                      THEN [context EXCEPT !.torin = @ \cup {n}]
                      ELSE context
        /\ lstate' = [lstate EXCEPT ![n] = r.self]
        /\ view' = [view EXCEPT ![n] = node_view]
        /\ lcall' = [kind |-> "update", node |-> n, view |-> node_view,
                     changed |-> r.changed, invalidated |-> r.changed,
                     repeat |-> view[n] = node_view]
        /\ UNCHANGED <<focusVars, syncVars, domVars, concVars, evVars, newVars, treeVars, duo, quota, lk>>

LayoutNext == \E n \in LayoutNodeIds, node_view \in NodeViews : LayoutUpdate(n, node_view)

\* The updates of the nodes' LayoutState.
SpecLayout == LayoutInit /\ [][LayoutNext]_vars

\* ------------------------------------- actions, the two side by side
DuoInit ==
    /\ impl = "AccessibilityState"
    /\ nodes = <<>>
    /\ FocusStart
    /\ SyncStart
    /\ DomStart
    /\ PassStart
    /\ EvStart
    /\ NewStart
    /\ TreeStart
    /\ LateStart

\* How far the frame's rebuild has come since the latest focus call: the
\* call itself, a clear after it, a pass over the layers after that clear.
DuoSince(op) ==
    CASE op \in {"set_focus", "focus_next"} -> "focus"
      [] op = "clear" /\ duo.since # "new" -> "clear"
      [] op = "layout" /\ duo.since = "clear" -> "rebuild"
      [] OTHER -> duo.since

\* What a call leaves of duo: the focuses and updates r (of the concrete
\* state) and q (of the provider) give, and what the adapters hold then.
DuoAfter(op, ns, r, q) ==
    [ns |-> ns, sf |-> r.focus, pf |-> q.focus, su |-> r.update, pu |-> q.update,
     sa |-> Adapter_update(duo.sa, r.update), pa |-> Adapter_update(duo.pa, q.update),
     op |-> op, since |-> DuoSince(op)]

\* A call that hands the adapters nothing and leaves each focus.
DuoKept == [focus |-> None, update |-> NoUpdate]

\* set_focus(adapter, id) and set_focus_with_update(Some(id))
DuoSetFocus(id) ==
    /\ duo' = DuoAfter("set_focus", duo.ns,
                       State_set_focus(duo.ns, duo.sf, id),
                       Provider_set_focus_with_update(duo.ns, duo.pf, id))
    /\ UNCHANGED <<focusVars, syncVars, domVars, concVars, evVars, newVars, treeVars, layVars, quota, lk>>

\* set_focus_on_next_node(direction) of both
DuoFocusNext(direction) ==
    /\ duo' = DuoAfter("focus_next", duo.ns,
                       State_set_focus_on_next_node(duo.ns, duo.sf, direction),
                       Provider_set_focus_on_next_node(duo.ns, duo.pf, direction))
    /\ UNCHANGED <<focusVars, syncVars, domVars, concVars, evVars, newVars, treeVars, layVars, quota, lk>>

\* clear() of both
DuoClear ==
    /\ duo' = DuoAfter("clear", State_clear(duo.ns),
                       [DuoKept EXCEPT !.focus = duo.sf],
                       [DuoKept EXCEPT !.focus = duo.pf])
    /\ UNCHANGED <<focusVars, syncVars, domVars, concVars, evVars, newVars, treeVars, layVars, quota, lk>>

\* The pass over the layers of the frame's tree
DuoLayout(tree) ==
    /\ Len(duo.ns) + Len(tree) <= MaxNodes
    /\ duo' = DuoAfter("layout", State_process_accessibility(duo.ns, tree),
                       [DuoKept EXCEPT !.focus = duo.sf],
                       [DuoKept EXCEPT !.focus = duo.pf])
    /\ UNCHANGED <<focusVars, syncVars, domVars, concVars, evVars, newVars, treeVars, layVars, quota, lk>>

\* process() of both, the snapshots handed to the adapters
DuoProcess ==
    /\ duo' = DuoAfter("process", duo.ns,
                       [focus |-> duo.sf, update |-> State_process(duo.ns, duo.sf)],
                       [focus |-> duo.pf, update |-> Provider_process(duo.ns, duo.pf, WINDOW_ID)])
    /\ UNCHANGED <<focusVars, syncVars, domVars, concVars, evVars, newVars, treeVars, layVars, quota, lk>>

DuoNext ==
    \/ \E id \in Ids : DuoSetFocus(id)
    \/ \E direction \in Direction : DuoFocusNext(direction)
    \/ DuoClear
    \/ \E tree \in Trees : DuoLayout(tree)
    \/ DuoProcess

\* The concrete state and the provider given the same calls.
SpecDuo == DuoInit /\ [][DuoNext]_vars

\* ------------------------------- actions, the mutex of the shared state
LockInit ==
    /\ impl = "AccessibilityState"
    /\ nodes = <<>>
    /\ FocusStart
    /\ SyncStart
    /\ DomStart
    /\ PassStart
    /\ EvStart
    /\ NewStart
    /\ TreeStart
    /\ LateStart

\* What the steps of the two threads leave alone.
LockFrame == UNCHANGED <<impl, last, trail, syncVars, domVars, concVars, evVars, newVars,
                         treeVars, layVars, duo, quota>>

\* The operations of the main thread that take the lock: clear, add_element
\* (one turn of the loop of process_accessibility), set_focus,
\* set_focus_on_next_node and process.
MainOps ==
    {[pc |-> "locked", op |-> "clear", id |-> None, dir |-> ""],
     [pc |-> "locked", op |-> "process", id |-> None, dir |-> ""]}
    \cup [pc : {"locked"}, op : {"add_element", "set_focus"}, id : Ids, dir : {""}]
    \cup [pc : {"locked"}, op : {"focus_next"}, id : {None}, dir : Direction]

\* self.accessibility_state.lock().unwrap() on the main thread, at the start
\* of one of its operations: it returns once the mutex is free.
MainLock(m) ==
    /\ lk.main.pc = "idle"
    /\ lk.holder = "none"
    /\ m.op = "add_element" => Len(nodes) < MaxNodes
    /\ lk' = [lk EXCEPT !.holder = "main", !.main = m]
    /\ UNCHANGED <<nodes, focus, channel, update>>
    /\ LockFrame

\* What the operation the main thread is in does to the state: the node
\* list, the focus and the update it makes.
MainEffect ==
    LET m == lk.main
    IN  CASE m.op = "clear" ->
                 [nodes |-> State_clear(nodes), focus |-> focus, update |-> NoUpdate, send |-> FALSE]
          [] m.op = "add_element" ->
                 [nodes |-> State_add_element(nodes, m.id), focus |-> focus,
                  update |-> NoUpdate, send |-> FALSE]
          [] m.op = "set_focus" ->
                 LET r == State_set_focus(nodes, focus, m.id)
                 IN  [nodes |-> nodes, focus |-> r.focus, update |-> r.update, send |-> r.send]
          [] m.op = "focus_next" ->
                 LET r == State_set_focus_on_next_node(nodes, focus, m.dir)
                 IN  [nodes |-> nodes, focus |-> r.focus, update |-> r.update, send |-> r.send]
          [] OTHER ->
                 [nodes |-> nodes, focus |-> focus, update |-> State_process(nodes, focus),
                  send |-> FALSE]

\* The operation runs under the lock and the guard is dropped at the end of
\* its statement.  set_focus and set_focus_on_next_node call adapter.update
\* themselves, under the lock; App::render_accessibility calls it with the
\* snapshot after the guard of process() is dropped.
MainRun ==
    /\ lk.main.pc = "locked"
    /\ LET r == MainEffect
           under_lock == lk.main.op \in {"set_focus", "focus_next"} /\ r.update.kind # "NoUpdate"
       IN  /\ nodes' = r.nodes
           /\ focus' = r.focus
           /\ update' = r.update
           /\ channel' = IF r.send THEN Watch_send(channel, r.focus) ELSE channel
           /\ \/ /\ under_lock
                 /\ lk' = [lk EXCEPT !.main.pc = "in_update"]
              \/ /\ lk.main.op = "process"
                 /\ lk' = [lk EXCEPT !.holder = "none", !.main.pc = "in_update"]
              \/ /\ ~under_lock
                 /\ lk.main.op # "process"
                 /\ lk' = [lk EXCEPT !.holder = "none", !.main = MainIdle]
    /\ LockFrame

\* adapter.update(tree_update) returns: the adapter applies the update.  An
\* update made under the lock ends the statement, which drops the guard.
MainUpdateReturns ==
    /\ lk.main.pc = "in_update"
    /\ lk' = [lk EXCEPT !.holder = IF @ = "main" THEN "none" ELSE @, !.main = MainIdle]
    /\ UNCHANGED <<nodes, focus, channel, update>>
    /\ LockFrame

\* adapter.update(tree_update) on an adapter that has not taken its initial
\* tree yet: the adapter may call the source closure first, on the calling
\* thread, and the closure starts with accessibility_state.lock().
MainUpdateCallsSource ==
    /\ lk.main.pc = "in_update"
    /\ lk.source = "held"
    /\ lk.cb = "idle"
    /\ lk' = [lk EXCEPT !.main.pc = "in_source", !.source = "called"]
    /\ UNCHANGED <<nodes, focus, channel, update>>
    /\ LockFrame

\* The closure called inside adapter.update gets the lock, calls process()
\* and returns; adapter.update goes on.  The lock is granted only when no
\* thread holds it.
MainSourceRuns ==
    /\ lk.main.pc = "in_source"
    /\ lk.holder = "none"
    /\ lk' = [lk EXCEPT !.main.pc = "in_update"]
    /\ UNCHANGED <<nodes, focus, channel, update>>
    /\ LockFrame

\* The adapter, asked for the tree by an assistive technology, calls the
\* source closure on its own thread: accessibility_state.lock() is requested.
CallbackRequest ==
    /\ lk.cb = "idle"
    /\ lk.source = "held"
    /\ lk.main.pc # "in_source"
    /\ lk' = [lk EXCEPT !.cb = "waiting", !.source = "called"]
    /\ UNCHANGED <<nodes, focus, channel, update>>
    /\ LockFrame

\* The closure's lock() returns.
CallbackLock ==
    /\ lk.cb = "waiting"
    /\ lk.holder = "none"
    /\ lk' = [lk EXCEPT !.holder = "adapter", !.cb = "locked"]
    /\ UNCHANGED <<nodes, focus, channel, update>>
    /\ LockFrame

\* accessibility_state.process(&window_title); the guard is dropped when the
\* closure returns.
CallbackRun ==
    /\ lk.cb = "locked"
    /\ update' = State_process(nodes, focus)
    /\ lk' = [lk EXCEPT !.holder = "none", !.cb = "idle"]
    /\ UNCHANGED <<nodes, focus, channel>>
    /\ LockFrame

LockNext ==
    \/ \E m \in MainOps : MainLock(m)
    \/ MainRun
    \/ MainUpdateReturns
    \/ MainUpdateCallsSource
    \/ MainSourceRuns
    \/ CallbackRequest
    \/ CallbackLock
    \/ CallbackRun

\* The main thread and the adapter's thread on the mutex of the shared
\* accessibility state.
SpecLock == LockInit /\ [][LockNext]_vars

\* ------------------------------------------- the application's focus state
\* The UseAccessibility handles of the application: one per accessibility
\* id, with the shared focus state in its context (ctx) or without it.
Handles == [id : Ids, ctx : BOOLEAN]

\* As UseAccessibility_is_focused, true of every handle while some id is
\* focused.
UseAccessibility_is_focused_any(h, sh) == h.ctx /\ sh # None

\* UseAccessibility::is_focused
UseAccessibility_is_focused(h, sh) == h.ctx /\ sh = h.id

\* UseAccessibility::focus: the value the shared state holds afterwards.
UseAccessibility_focus(h, sh) == IF h.ctx THEN h.id ELSE sh

\* UseAccessibility::unfocus: the value the shared state holds afterwards.
UseAccessibility_unfocus(h, sh) == IF h.ctx THEN None ELSE sh

\* freya_hooks::focus_node_id: the request to focus id is queued for the
\* event loop, which answers it with App::set_accessibility_focus(id).
focus_node_id(queue, id) == Append(queue, id)

\* As Provider_focus_effect, with no request made.
Provider_focus_effect_silent(queue, focused_id) == queue

\* The first effect of AccessibilityFocusProvider, run with the focused id
\* it depends on: focus_node_id for Some(id), nothing for None.
Provider_focus_effect(queue, focused_id) ==
    IF focused_id # None THEN focus_node_id(queue, focused_id) ELSE queue

\* The body of the listener loop of AccessibilityFocusProvider:
\* *focused_id.write() = *focus_id_listener.borrow()
Provider_listener_value(ch, sh) == ch

\* The node lists the application has after its first layout pass, up to
\* the naming of the ids.
FirstPassLists ==
    {[i \in 1..n |-> WINDOW_ID + i] : n \in 0..(IF MaxNodes < NumIds THEN MaxNodes ELSE NumIds)}

\* The application with AccessibilityFocusProvider mounted, after its first
\* layout pass.
SyncInit ==
    /\ impl = "AccessibilityState"
    /\ nodes \in FirstPassLists
    /\ FocusStart
    /\ SyncStart
    /\ DomStart
    /\ PassStart
    /\ EvStart
    /\ NewStart
    /\ TreeStart
    /\ LateStart

\* UseAccessibility::focus, called by the application on handle h.
AppFocus(h) ==
    /\ shared' = UseAccessibility_focus(h, shared)
    /\ last' = Call("focus", h.id, "")
    /\ update' = NoUpdate
    /\ UNCHANGED <<impl, nodes, focus, channel, trail>>
    /\ UNCHANGED <<dep, msgs, unseen, committed>>
    /\ UNCHANGED <<domVars, concVars, evVars, newVars, treeVars, lateVars>>

\* UseAccessibility::unfocus, called by the application on handle h.
AppUnfocus(h) ==
    /\ shared' = UseAccessibility_unfocus(h, shared)
    /\ last' = Call("unfocus", h.id, "")
    /\ update' = NoUpdate
    /\ UNCHANGED <<impl, nodes, focus, channel, trail>>
    /\ UNCHANGED <<dep, msgs, unseen, committed>>
    /\ UNCHANGED <<domVars, concVars, evVars, newVars, treeVars, lateVars>>

\* AccessibilityFocusProvider re-rendered with a focused id other than the
\* one its effect last ran with: the effect runs.
FocusEffect ==
    /\ dep # shared
    /\ Len(msgs) < MaxMsgs
    /\ dep' = shared
    /\ msgs' = Provider_focus_effect(msgs, shared)
    /\ last' = Call("effect", shared, "")
    /\ update' = NoUpdate
    /\ UNCHANGED <<impl, nodes, focus, channel, trail>>
    /\ UNCHANGED <<shared, unseen, committed>>
    /\ UNCHANGED <<domVars, concVars, evVars, newVars, treeVars, lateVars>>

\* The listener of AccessibilityFocusProvider: changed() returns once the
\* channel holds a value the receiver has not seen, and the value the
\* channel holds then is written to the shared state.
FocusListener ==
    /\ unseen > 0
    /\ shared' = Provider_listener_value(channel, shared)
    /\ unseen' = 0
    /\ last' = [Call("listener", None, "") EXCEPT !.n = unseen]
    /\ update' = NoUpdate
    /\ UNCHANGED <<impl, nodes, focus, channel, trail>>
    /\ UNCHANGED <<dep, msgs, committed>>
    /\ UNCHANGED <<domVars, concVars, evVars, newVars, treeVars, lateVars>>

\* The event loop answers the oldest focus request:
\* App::set_accessibility_focus(id).
HandleFocusMessage ==
    /\ msgs # <<>>
    /\ LET r == State_set_focus(nodes, focus, Head(msgs))
       IN  /\ focus' = r.focus
           /\ update' = r.update
    /\ msgs' = Tail(msgs)
    /\ last' = Call("set_focus", Head(msgs), "")
    /\ UNCHANGED <<impl, nodes, channel, trail>>
    /\ UNCHANGED <<shared, dep, unseen, committed>>
    /\ UNCHANGED <<domVars, concVars, evVars, newVars, treeVars, lateVars>>

\* App::focus_next_node while the listener holds a receiver of the channel.
FocusNextNodeObserved(direction) ==
    /\ unseen < MaxUnseen
    /\ LET r == State_set_focus_on_next_node(nodes, focus, direction)
       IN  /\ focus' = r.focus
           /\ update' = r.update
           /\ channel' = IF r.send THEN Watch_send(channel, r.focus) ELSE channel
           /\ unseen' = IF r.send THEN unseen + 1 ELSE unseen
           /\ committed' = IF r.send THEN r.focus ELSE committed
           /\ last' = [Call("focus_next", None, direction) EXCEPT
                           !.n = IF r.send THEN 1 ELSE 0,
                           !.at = r.at, !.sub_from = r.sub_from]
    /\ UNCHANGED <<impl, nodes, trail>>
    /\ UNCHANGED <<shared, dep, msgs>>
    /\ UNCHANGED <<domVars, concVars, evVars, newVars, treeVars, lateVars>>

SyncNext ==
    \/ \E h \in Handles : AppFocus(h)
    \/ \E h \in Handles : AppUnfocus(h)
    \/ FocusEffect
    \/ FocusListener
    \/ HandleFocusMessage
    \/ \E direction \in Direction : FocusNextNodeObserved(direction)

\* The focus synchronisation between the application and the accessibility
\* state.
SpecSync == SyncInit /\ [][SyncNext]_vars

\* Nothing is on its way between the two sides.
Quiescent == dep = shared /\ msgs = <<>> /\ unseen = 0

\* ------------------------ the focus synchronisation left to itself
\* The application after its first layout pass, with the requests it and the
\* user are going to make.
QuietInit ==
    /\ impl = "AccessibilityState"
    /\ nodes \in FirstPassLists
    /\ FocusStart
    /\ SyncStart
    /\ DomStart
    /\ PassStart
    /\ EvStart
    /\ NewStart
    /\ TreeStart
    /\ LayoutStart
    /\ DuoStart
    /\ quota = [left |-> MaxRequests, req |-> "none"]
    /\ LockStart

\* One more request made, of kind req when it wrote a value and "idle" when
\* it wrote none.  A request is made once the one before it has settled.
QuietRequest(req, wrote) ==
    /\ quota.left > 0
    /\ Quiescent
    /\ quota' = [left |-> quota.left - 1, req |-> IF wrote THEN req ELSE "idle"]

\* UseAccessibility::focus on handle h.
QuietFocus(h) ==
    /\ QuietRequest("focus", h.ctx)
    /\ shared' = UseAccessibility_focus(h, shared)
    /\ last' = Call("focus", h.id, "")
    /\ update' = NoUpdate
    /\ UNCHANGED <<impl, nodes, focus, channel, trail>>
    /\ UNCHANGED <<dep, msgs, unseen, committed>>
    /\ UNCHANGED <<domVars, concVars, evVars, newVars, treeVars, layVars, duo, lk>>

\* UseAccessibility::unfocus on handle h.
QuietUnfocus(h) ==
    /\ QuietRequest("unfocus", h.ctx)
    /\ shared' = UseAccessibility_unfocus(h, shared)
    /\ last' = Call("unfocus", h.id, "")
    /\ update' = NoUpdate
    /\ UNCHANGED <<impl, nodes, focus, channel, trail>>
    /\ UNCHANGED <<dep, msgs, unseen, committed>>
    /\ UNCHANGED <<domVars, concVars, evVars, newVars, treeVars, layVars, duo, lk>>

\* App::focus_next_node.
QuietFocusNext(direction) ==
    /\ LET r == State_set_focus_on_next_node(nodes, focus, direction)
       IN  /\ QuietRequest("focus_next", r.send)
           /\ focus' = r.focus
           /\ update' = r.update
           /\ channel' = IF r.send THEN Watch_send(channel, r.focus) ELSE channel
           /\ unseen' = IF r.send THEN unseen + 1 ELSE unseen
           /\ committed' = IF r.send THEN r.focus ELSE committed
           /\ last' = [Call("focus_next", None, direction) EXCEPT
                           !.n = IF r.send THEN 1 ELSE 0,
                           !.at = r.at, !.sub_from = r.sub_from]
    /\ UNCHANGED <<impl, nodes, trail>>
    /\ UNCHANGED <<shared, dep, msgs>>
    /\ UNCHANGED <<domVars, concVars, evVars, newVars, treeVars, layVars, duo, lk>>

QuietNext ==
    \/ \E h \in Handles : QuietFocus(h)
    \/ \E h \in Handles : QuietUnfocus(h)
    \/ \E direction \in Direction : QuietFocusNext(direction)
    \/ FocusEffect
    \/ FocusListener
    \/ HandleFocusMessage

\* The focus synchronisation with requests made one at a time.  The
\* scheduler of the application runs an effect that is due and polls the
\* listener's task once the channel has changed, and the event loop answers
\* a queued focus request.
SpecQuiet ==
    /\ QuietInit
    /\ [][QuietNext]_vars
    /\ WF_vars(FocusEffect)
    /\ WF_vars(FocusListener)
    /\ WF_vars(HandleFocusMessage)

Next ==
    \/ ClearAccessibility
    \/ \E tree \in Trees : ProcessLayout(tree)
    \/ \E id \in Ids : SetAccessibilityFocus(id)
    \/ \E direction \in Direction : FocusNextNode(direction)
    \/ RenderAccessibility
    \/ AdapterCallback
    \/ ProviderClear
    \/ \E tree \in Trees : ProviderProcessAccessibility(tree)
    \/ \E new_focus_id \in OptIds : ProviderSetFocusWithUpdate(new_focus_id)
    \/ \E direction \in Direction : ProviderSetFocusOnNextNode(direction)
    \/ ProviderProcess

Spec == Init /\ [][Next]_vars

TypeOK ==
    /\ impl \in {"AccessibilityState", "AccessibilityProvider"}
    /\ nodes \in UNION {[1..n -> Ids] : n \in 0..MaxNodes}
    /\ focus \in OptIds
    /\ channel \in OptIds

\* ================================================================= claims
\* The 0-based position of id in ns as the navigation sees it: the first
\* entry holding it.
PositionOf(ns, id) ==
    CHOOSE i \in 0..(Len(ns) - 1) :
        ns[i + 1] = id /\ \A j \in 0..(i - 1) : ns[j + 1] # id

Distinct(ns) == \A i, j \in 1..Len(ns) : i # j => ns[i] # ns[j]

\* C1: after set_focus(id) / set_focus_with_update(Some(id)) the stored focus
\* is Some(x) only if x is in the node list, and a call whose id is absent
\* from the list leaves the stored focus as it was before the call.
C1_SetFocusOnlyStoresListedId ==
    (last.op = "set_focus" /\ last.id # None) =>
        /\ focus # None => focus \in Range(nodes)
        /\ last.id \notin Range(nodes) => focus = last.before

\* C2: every focus-only update handed to the adapter by set_focus,
\* set_focus_with_update or set_focus_on_next_node carries None or an id
\* that is in the node list at that moment.
C2_FocusUpdateNamesListedId ==
    update.kind = "FocusOnly" =>
        update.focus = None \/ update.focus \in Range(nodes)

\* C2 witness: a navigation from a stale focus (an id no longer in the list)
\* has handed the adapter a focus-only update naming a listed id.
C2_Witness ==
    /\ update.kind = "FocusOnly"
    /\ last.op = "focus_next"
    /\ last.before # None
    /\ last.before \notin Range(nodes)
    /\ update.focus \in Range(nodes)

\* C3: every full snapshot returned by process() has focus equal to the
\* stored focus when that id is in the node list and None otherwise.
C3_SnapshotFocusIsListedOrNone ==
    update.kind = "Full" =>
        update.focus = (IF focus \in Range(nodes) THEN focus ELSE None)

\* C3 witness: a snapshot of a non-empty list rebuilt without the focused
\* node reports no focus.
C3_Witness ==
    /\ update.kind = "Full"
    /\ focus # None
    /\ nodes # <<>>
    /\ focus \notin Range(nodes)
    /\ update.focus = None

\* C4: starting with focus = None and a list of n >= 1 entries, k successive
\* focus_next(Forward) calls leave the focus on the entry at index
\* (k-1) mod n.
C4_ForwardFromNoneWalksTheList ==
    \A k \in 1..Len(trail) :
        ( /\ nodes # <<>>
          /\ trail[1].before = None
          /\ \A j \in 1..k : trail[j].dir = "Forward" )
        => trail[k].after = nodes[((k - 1) % Len(nodes)) + 1]

\* C5: with focus = None and a non-empty list, focus_next(Backward) sets the
\* focus to the first node of the list.
C5_BackwardFromNoneSelectsFirst ==
    ( /\ last.op = "focus_next"
      /\ last.dir = "Backward"
      /\ last.before = None
      /\ nodes # <<>> )
    => focus = nodes[1]

\* The claim of C6 and C7 for the implementation named: from the focused id
\* at index i of n entries Forward focuses the entry at (i+1) mod n and
\* Backward the entry at (i-1+n) mod n.
NextIndexLaw(which) ==
    ( /\ impl = which
      /\ last.op = "focus_next"
      /\ last.before \in Range(nodes) )
    => LET n == Len(nodes)
           i == PositionOf(nodes, last.before)
       IN  focus = IF last.dir = "Forward"
                   THEN nodes[((i + 1) % n) + 1]
                   ELSE nodes[((i - 1 + n) % n) + 1]

\* C6: in the trait-based provider, from the focused id at index i of n
\* entries Forward focuses the entry at (i+1) mod n and Backward the entry
\* at (i-1+n) mod n.
C6_ProviderStepsWithWraparound == NextIndexLaw("AccessibilityProvider")

\* C6 witness: the provider has wrapped Forward from the last of three
\* entries to the first.
C6_Witness ==
    /\ impl = "AccessibilityProvider"
    /\ last.op = "focus_next"
    /\ last.dir = "Forward"
    /\ Len(nodes) = 3
    /\ Distinct(nodes)
    /\ last.before = nodes[3]
    /\ focus = nodes[1]

\* C7: in the concrete AccessibilityState, from the focused id at index i of
\* n entries Forward focuses the entry at (i+1) mod n and Backward the entry
\* at (i-1+n) mod n.
C7_StateStepsWithWraparound == NextIndexLaw("AccessibilityState")

\* C8: for any list of at least 2 entries and any focused id in the list,
\* focus_next(Forward) immediately followed by focus_next(Backward) leaves
\* the focus on the original id.
C8_ForwardThenBackwardReturns ==
    \A k \in 2..Len(trail) :
        ( /\ Len(nodes) >= 2
          /\ trail[k - 1].dir = "Forward"
          /\ trail[k].dir = "Backward"
          /\ trail[k - 1].before \in Range(nodes) )
        => trail[k].after = trail[k - 1].before

\* C9: on a list of N >= 1 distinct entries with the focused id in the list,
\* N consecutive focus_next(Forward) calls return the focus to the starting
\* id and no id is visited twice before that.
C9_ForwardIsOneCycle ==
    \A k \in 1..Len(trail) :
        ( /\ Distinct(nodes)
          /\ k <= Len(nodes)
          /\ trail[1].before \in Range(nodes)
          /\ \A j \in 1..k : trail[j].dir = "Forward" )
        => /\ \A a, b \in 1..k : a # b => trail[a].after # trail[b].after
           /\ (trail[k].after = trail[1].before) <=> (k = Len(nodes))

\* C9 witness: three Forward calls on three distinct entries have brought
\* the focus back to where it started.
C9_Witness ==
    /\ Len(nodes) = 3
    /\ Distinct(nodes)
    /\ Len(trail) >= 3
    /\ \A j \in 1..3 : trail[j].dir = "Forward"
    /\ trail[1].before \in Range(nodes)
    /\ trail[3].after = trail[1].before

\* C10: with an empty node list any focus_next call leaves the focus None
\* and hands no update to the adapter.
C10_EmptyListNavigationIsNoOp ==
    (last.op = "focus_next" /\ nodes = <<>>) =>
        /\ focus = None
        /\ update = NoUpdate

\* C11: every navigation call that commits a focus publishes it to both
\* sinks with the same value: the adapter update, the value sent on the
\* watch channel and the stored focus are equal, and no navigation call
\* updates one sink without the other.
C11_NavigationPublishesToBothSinks ==
    last.op = "focus_next" =>
        /\ (update.kind = "FocusOnly") <=> (last.n = 1)
        /\ last.n = 1 => (update.focus = focus /\ channel = focus)

\* C11 witness: a navigation has moved the focus to another node and
\* published it.
C11_Witness ==
    /\ last.op = "focus_next"
    /\ last.n = 1
    /\ focus # None
    /\ last.before \in Range(nodes)
    /\ focus # last.before
    /\ update = FocusUpdate(focus)
    /\ channel = focus

\* C12: after any sequence of layout passes, clears and snapshots the node
\* list holds every accessibility id at most once.
C12_NodeListHoldsEachIdOnce == Distinct(nodes)

\* C15: the focus is cleared when the focused node is removed: at a snapshot
\* taken when the node that navigation focused and published is no longer in
\* the node list, the stored focus and the value of the watch channel are
\* both None.
C15_RemovedFocusIsCleared ==
    ( /\ last.op \in {"process", "callback"}
      /\ last.before # None
      /\ last.before = channel
      /\ last.before \notin Range(nodes) )
    => (focus = None /\ channel = None)

\* The handles that report is_focused() = true.
FocusedHandles == {h \in Handles : UseAccessibility_is_focused(h, shared)}

\* C16 (as stated): the application's shared focused id and the focus of
\* AccessibilityState never name two different nodes, and at most one handle
\* reports is_focused() = true.
C16_NeverTwoNodesFocused ==
    /\ (shared # None /\ focus # None) => shared = focus
    /\ Cardinality(FocusedHandles) <= 1

\* C16 (amended): in every reachable state at most one node is focused on
\* the application's side: at most one handle reports is_focused() = true,
\* and it carries the id the shared state holds; the focus of
\* AccessibilityState may name another node while a change is on its way.
C16_AtMostOneHandleFocused ==
    /\ Cardinality(FocusedHandles) <= 1
    /\ \A h \in FocusedHandles : shared = h.id

\* C16 witness: one handle reports is_focused() while AccessibilityState
\* holds the focus of another node.
C16_Witness ==
    /\ Cardinality(FocusedHandles) = 1
    /\ focus # None
    /\ shared # None
    /\ shared # focus

\* C18: either side's write reaches the other: once nothing is on its way
\* (the effect has run for the current shared value, every focus request is
\* answered and the listener has seen the channel's value) the shared value
\* of the application, None included, and the focus of AccessibilityState
\* are the same.
C18_WritesReachTheOtherSide == Quiescent => shared = focus

\* C19: the channel is last-write-wins: when the listener has run and no
\* further write is pending, the shared value of the application is the
\* focus navigation committed most recently, however many values were sent
\* before it ran.
C19_ListenerAppliesLatestFocus ==
    last.op = "listener" => (unseen = 0 /\ shared = committed /\ shared = channel)

\* C19 witness: the listener ran after two navigations over a list of two
\* or more nodes had committed two different focuses, and the shared value
\* is the second one.
C19_Witness ==
    /\ last.op = "listener"
    /\ last.n = 2
    /\ Len(nodes) >= 2
    /\ shared = committed
    /\ shared = focus
    /\ shared # None

\* The entries of the node list that the latest layout pass added.
LatestPass == SubSeq(nodes, Len(nodes) - last.n + 1, Len(nodes))

\* C14: the node list after a layout pass holds the nodes of the render tree
\* of that pass and nothing else: no entry of an earlier pass survives, so
\* the id of a node removed from the render tree is not in it.
C14_PassRebuildsTheListInFull ==
    last.op = "process_layout" => nodes = LatestPass

\* C13: an element keeps its accessibility id for as long as it exists: when
\* Accessibility::update runs again for an element that has an id, after a
\* change of its focusable attribute alone, the element has the same id
\* afterwards.
C13_UpdateKeepsTheId ==
    (upd.op = "update" /\ upd.same /\ upd.old # None) => upd.new = upd.old

\* C17: the adapter never observes a partially rebuilt tree: the snapshot
\* its callback takes at any point of a frame is the snapshot of the
\* complete node list of the previous pass or of the complete node list of
\* the new pass.
C17_SnapshotIsOfACompleteList ==
    last.op = "callback" =>
        \/ update = State_process(pass.prev, focus)
        \/ update = State_process(pass.tree, focus)

\* C20: an event named mouseleave or pointerleave compares Equal to an event
\* of the identical name and Less than every other event; an event of any
\* other name compares Greater than every event and Equal to none.
C20_LeaveFamilyRule ==
    ev.ord # "none" =>
        IF ev.a.name \in {"mouseleave", "pointerleave"}
        THEN /\ (ev.ord = "Equal") <=> (ev.b.name = ev.a.name)
             /\ (ev.b.name # ev.a.name) => ev.ord = "Less"
        ELSE ev.ord = "Greater"

\* C20 witness: mouseleave was compared with pointerleave and is Less.
C20_Witness ==
    /\ ev.ord = "Less"
    /\ ev.a.name = "mouseleave"
    /\ ev.b.name = "pointerleave"

\* The names of the leave family.
LeaveFamily == {"mouseleave", "pointerleave"}

\* C21: a batch of one leave event (pointerleave or mouseleave) and one
\* event of another name, put in the order of DomEvent's comparison and
\* dispatched in that order, delivers the other event first.
C21_OtherEventBeforeLeave ==
    ( /\ ev.sent # <<>>
      /\ (ev.a.name \in LeaveFamily) # (ev.b.name \in LeaveFamily) )
    => ev.sent[1].name \notin LeaveFamily

\* C30: can_change_element_hover_state is true exactly for mouseover,
\* mouseenter, pointerover and pointerenter, and does_move_cursor and
\* does_event_move_cursor give the same answer for every event, whatever
\* its node.
C30_HoverTableOnNameOnly ==
    ev.cls.run =>
        /\ ev.cls.hover <=>
               ev.a.name \in {"mouseover", "mouseenter", "pointerover", "pointerenter"}
        /\ ev.cls.moves = ev.cls.hover
        /\ ev.cls.by_name = ev.cls.hover

\* C30 witness: a pointerenter event was classified as changing the hover
\* state and moving the cursor.
C30_Witness ==
    /\ ev.cls.run
    /\ ev.a.name = "pointerenter"
    /\ ev.cls.hover
    /\ ev.cls.moves

\* DomEvent::new has returned an event of the given raw kind.
Made(kind) == made.out # NoCall /\ made.p.kind = kind

\* C22 (as stated): for a mouse event the screen coordinates are the device
\* coordinates divided by the scale factor and the element-local coordinates
\* are the screen coordinates minus the top-left corner of the node's bounds.
C22_ElementIsScreenMinusBounds ==
    Made("Mouse") =>
        LET a == made.p
            m == Area_min(a.node_area)
            sx == FracDiv(<<a.at[1], 1>>, a.scale_factor)
            sy == FracDiv(<<a.at[2], 1>>, a.scale_factor)
        IN  /\ made.out.data.screen = <<sx, sy>>
            /\ made.out.data.element = <<FracSub(sx, <<m[1], 1>>), FracSub(sy, <<m[2], 1>>)>>

\* C22 (amended): for a mouse event the screen coordinates are the device
\* coordinates divided by the scale factor and the element-local coordinates
\* are the screen coordinates minus the top-left corner of the node's bounds
\* divided by the scale factor: device (120, 80), bounds from (20, 10) and
\* scale factor 2 give screen (60, 40) and element-local (50, 35).
C22_ElementIsScreenMinusScaledBounds ==
    Made("Mouse") =>
        LET a == made.p
            m == Area_min(a.node_area)
            sx == FracDiv(<<a.at[1], 1>>, a.scale_factor)
            sy == FracDiv(<<a.at[2], 1>>, a.scale_factor)
        IN  /\ made.out.data.screen = <<sx, sy>>
            /\ made.out.data.element =
                   <<FracSub(sx, FracDiv(<<m[1], 1>>, a.scale_factor)),
                     FracSub(sy, FracDiv(<<m[2], 1>>, a.scale_factor))>>
            /\ (a.at = <<120, 80>> /\ a.node_area = <<20, 10>> /\ a.scale_factor = 2)
                   => (made.out.data.screen = <<<<60, 1>>, <<40, 1>>>>
                       /\ made.out.data.element = <<<<50, 1>>, <<35, 1>>>>)

\* C22 witness: the event made for device (120, 80), bounds from (20, 10)
\* and scale factor 2.
C22_Witness ==
    /\ Made("Mouse")
    /\ made.p.at = <<120, 80>>
    /\ made.p.node_area = <<20, 10>>
    /\ made.p.scale_factor = 2
    /\ made.out.data.element = <<<<50, 1>>, <<35, 1>>>>

\* C23: for a touch event the screen coordinates are the location as it is,
\* for every scale factor, and the element-local coordinates are the
\* location minus the top-left corner of the node's bounds; with no node
\* area they are the location.
C23_TouchIsNotScaled ==
    Made("Touch") =>
        LET a == made.p
            loc == <<<<a.at[1], 1>>, <<a.at[2], 1>>>>
        IN  /\ made.out.data.screen = loc
            /\ a.node_area # NoArea =>
                   made.out.data.element =
                       <<Frac(a.at[1] - a.node_area[1], 1), Frac(a.at[2] - a.node_area[2], 1)>>
            /\ a.node_area = NoArea => made.out.data.element = loc

\* C23 witness: a touch at (120, 80) over bounds from (20, 10) under scale
\* factor 2 has screen (120, 80) and element-local (100, 70).
C23_Witness ==
    /\ Made("Touch")
    /\ made.p.at = <<120, 80>>
    /\ made.p.node_area = <<20, 10>>
    /\ made.p.scale_factor = 2
    /\ made.out.data.screen = <<<<120, 1>>, <<80, 1>>>>
    /\ made.out.data.element = <<<<100, 1>>, <<70, 1>>>>

\* C29: from the same raw mouse or touch input the payload is Pointer
\* exactly when the raw event is a pointer event and Mouse / Touch
\* otherwise; the other shape would carry the same screen and element-local
\* coordinates; name, node_id, element_id, layer and bubbles are those of
\* the arguments.
C29_BothShapesFromTheSameInput ==
    (Made("Mouse") \/ Made("Touch")) =>
        LET a == made.p
            other == DomEvent_new([a EXCEPT !.is_pointer = ~a.is_pointer])
        IN  /\ (made.out.data.shape = "Pointer") <=> a.is_pointer
            /\ ~a.is_pointer => made.out.data.shape = a.kind
            /\ other.data.shape # made.out.data.shape
            /\ other.data.screen = made.out.data.screen
            /\ other.data.element = made.out.data.element
            /\ made.out.name = a.name
            /\ made.out.node_id = a.node_id
            /\ made.out.element_id = a.element_id
            /\ made.out.layer = a.layer
            /\ made.out.bubbles = a.bubbles

\* C29 witness: a raw mouse event classified as a pointer event was made
\* into a Pointer payload.
C29_Witness ==
    /\ Made("Mouse")
    /\ made.p.is_pointer
    /\ made.out.data.shape = "Pointer"
    /\ made.out.data.element # made.out.data.screen

\* The place in the layer order of the element a projected node was built for.
PlaceOf(nd) == nd.id - WINDOW_ID

\* The projected nodes of the pass.
Projected == {proj.nodes[k] : k \in 1..Len(proj.nodes)}

\* The ids in ids stand in rising order of their elements' places.
InLayerOrder(ids) == \A p, q \in 1..Len(ids) : p < q => ids[p] < ids[q]

\* C24: the children of the synthetic root are exactly the top-level
\* accessible nodes in layer order: a node listed as a child of another
\* projected node is not a child of the root, so every node other than the
\* root has one parent in the snapshot.
C24_RootListsTopLevelNodesOnly ==
    proj.snap =>
        /\ \A k \in 1..Len(proj.root) :
              \A nd \in Projected : proj.root[k] \notin Range(nd.children)
        /\ \A nd \in Projected :
              (\A other \in Projected : nd.id \notin Range(other.children))
                  => nd.id \in Range(proj.root)
        /\ InLayerOrder(proj.root)

\* C25: a pass over a layer index with an entry that is gone from the
\* render tree or has no layout entry ends without a panic, leaves that
\* node out and adds every other accessible node.
C25_PassAbsorbsInconsistency ==
    proj.status # "none" =>
        /\ proj.status = "ok"
        /\ {nd.id : nd \in Projected} =
               {IdOf(i) : i \in {j \in 1..Len(rtree.ns) :
                                    /\ HasId(rtree.ns[j].kind)
                                    /\ j # rtree.gone
                                    /\ j # rtree.unmeasured}}
        /\ Len(proj.nodes) = Cardinality(Projected)

\* C26: the children list of a projected node holds the accessibility ids
\* of those children of its element that carry one, in child order, and
\* nothing else.
C26_ChildrenAreTheChildrenWithId ==
    proj.status # "none" =>
        \A nd \in Projected :
            LET kids == {j \in 1..Len(rtree.ns) :
                            /\ rtree.ns[j].parent = PlaceOf(nd)
                            /\ j # rtree.gone
                            /\ HasId(rtree.ns[j].kind)}
            IN  /\ Range(nd.children) = {IdOf(j) : j \in kids}
                /\ Len(nd.children) = Cardinality(kids)
                /\ InLayerOrder(nd.children)

\* C26 witness: a projected node whose element has a child without id and,
\* after it, a child with an id: the list holds the id of the second alone.
C26_Witness ==
    /\ proj.status = "ok"
    /\ \E nd \in Projected :
          \E j, c \in 1..Len(rtree.ns) :
              /\ j < c
              /\ rtree.ns[j].parent = PlaceOf(nd)
              /\ rtree.ns[j].kind = "plain"
              /\ rtree.ns[c].parent = PlaceOf(nd)
              /\ HasId(rtree.ns[c].kind)
              /\ nd.children = <<IdOf(c)>>

\* The place of the first text node among the descendants of the nodes
\* kids, in document order; 0 when there is none.
RECURSIVE FirstTextIn(_, _)
FirstTextIn(t, kids) ==
    IF kids = <<>> THEN 0
    ELSE IF t.ns[Head(kids)].kind = "text" THEN Head(kids)
    ELSE LET below == FirstTextIn(t, Children(t, Head(kids)))
         IN  IF below # 0 THEN below ELSE FirstTextIn(t, Tail(kids))

\* C27: the value of a node projected by AccessibilityState is its alt text
\* when it has one; otherwise it is the text of the first text node among
\* its descendants, and absent only when there is none.
C27_ValueIsFirstTextOfDescendants ==
    (proj.status # "none" /\ impl = "AccessibilityState") =>
        \A nd \in Projected :
            LET first == FirstTextIn(rtree, Children(rtree, PlaceOf(nd)))
            IN  nd.value =
                    IF rtree.ns[PlaceOf(nd)].kind = "acc_alt"
                    THEN [from |-> "alt", at |-> PlaceOf(nd)]
                    ELSE IF first # 0 THEN [from |-> "text", at |-> first]
                    ELSE NoValue

\* C28: a projected node flagged focusable has the Focus action and no
\* default action; any other projected node has the Default action with the
\* Click verb and no Focus action.
C28_OneFocusAffordance ==
    proj.status # "none" =>
        \A nd \in Projected :
            IF rtree.ns[PlaceOf(nd)].kind = "acc_focusable"
            THEN nd.actions = {"Focus"} /\ nd.verb = ""
            ELSE nd.actions = {"Default"} /\ nd.verb = "Click"

\* ------------------------------------------------------------------ C31
\* C31: LayoutState::update invalidates the node's layout exactly when it
\* returns true, and an update of a node with the attribute values of its
\* previous update returns false and invalidates nothing.
C31_UpdateSignalsRealChangesOnly ==
    lcall.kind = "update" =>
        /\ lcall.invalidated <=> lcall.changed
        /\ lcall.repeat => ~lcall.changed /\ ~lcall.invalidated

\* ------------------------------------------------------------------ C32
\* C32: for every pair of events a and b, a.cmp(b) is the reverse of
\* b.cmp(a): Less and Greater swapped, Equal kept.
C32_CmpIsAntisymmetric ==
    (ev.ord # "none" /\ ev.back # "none") => ev.back = Ordering_reverse(ev.ord)

\* ------------------------------------------------------------------ C33
\* C33: a == b holds if and only if a.cmp(b) is Equal; in particular
\* a.cmp(a) is Equal for every event.
C33_CmpAgreesWithEq ==
    (ev.ord # "none" /\ ev.eq # "none") => ((ev.eq = "true") <=> (ev.ord = "Equal"))

\* ------------------------------------------------------------------ C34
\* C34: after set_focus or a navigation, the focus most recently handed to
\* the platform adapter equals the focus a snapshot (process()) taken at
\* that moment reports.
C34_AdapterHoldsTheSnapshotFocus ==
    duo.op \in {"set_focus", "focus_next"} =>
        /\ duo.sa = State_process(duo.ns, duo.sf).focus
        /\ duo.pa = Provider_process(duo.ns, duo.pf, WINDOW_ID).focus

\* ------------------------------------------------------------------ C35
\* C35: started from the same node list and focus and given the same
\* set_focus and navigation calls, the provider and the concrete state hold
\* the same focus after every call and hand over the same focus updates.
C35_BothImplementationsAgree ==
    /\ duo.sf = duo.pf
    /\ duo.op \in {"set_focus", "focus_next"} => duo.su = duo.pu

\* ------------------------------------------------------------------ C37
\* C37: in set_focus_on_next_node, nodes.len() - 1 is evaluated only on a
\* non-empty list, the target index computed is within 0..len-1 and is the
\* index of the entry focused, and whenever the list is non-empty and a
\* focus was stored before the call the focus after it is an id of the list.
C37_NavigationStaysInsideTheList ==
    last.op = "focus_next" =>
        /\ last.sub_from # -1 => last.sub_from >= 1
        /\ last.at # -1 => (last.at \in 0..(Len(nodes) - 1) /\ focus = nodes[last.at + 1])
        /\ (nodes # <<>> /\ last.before # None) => focus \in Range(nodes)

\* C37 witness: the provider went Backward from the first of at least two
\* entries: it evaluated len() - 1 and focused the entry at that index.
C37_Witness ==
    /\ impl = "AccessibilityProvider"
    /\ last.op = "focus_next"
    /\ last.dir = "Backward"
    /\ Len(nodes) >= 2
    /\ last.before = nodes[1]
    /\ last.sub_from = Len(nodes)
    /\ last.at = Len(nodes) - 1
    /\ focus = nodes[Len(nodes)]

\* ------------------------------------------------------------------ C38
\* C38: clear() empties the node list and leaves the focus, process()
\* changes neither the node list nor the focus, and its snapshot reports the
\* stored focus whenever a node of the list holds it.
C38_ClearAndProcessKeepTheFocus ==
    [][ /\ duo'.op = "clear" => (duo'.ns = <<>> /\ duo'.sf = duo.sf)
        /\ duo'.op = "process" =>
               /\ duo'.ns = duo.ns
               /\ duo'.sf = duo.sf
               /\ duo.sf \in Range(duo.ns) => duo'.su.focus = duo.sf ]_vars

\* C38 witness: after a focus call the list was cleared and rebuilt, and the
\* snapshot taken then reports the focus stored by that call.
C38_Witness ==
    /\ duo.op = "process"
    /\ duo.since = "rebuild"
    /\ duo.sf # None
    /\ duo.su.kind = "Full"
    /\ duo.su.focus = duo.sf

\* ------------------------------------------------------------------ C36
\* C36: after a single navigation or a single focus request of the
\* application, made when nothing is on its way, the chain navigation ->
\* watch channel -> listener -> shared focus -> effect -> focus_node_id ->
\* set_focus makes finitely many further writes and stops: from some point
\* on nothing is on its way, and the shared focus and the
\* AccessibilityState focus are equal when the latest request was a
\* navigation or a focus request that wrote a value.
C36_SynchronisationSettles ==
    <>[](Quiescent /\ (quota.req \in {"focus", "focus_next"} => shared = focus))

\* C36 witness: a navigation's focus went through the channel and the
\* listener to the shared focus and came back as a set_focus request, which
\* was answered; nothing is on its way and both sides hold that focus.
C36_Witness ==
    /\ quota.req = "focus_next"
    /\ Quiescent
    /\ last.op = "set_focus"
    /\ focus # None
    /\ channel = focus
    /\ shared = focus

\* ------------------------------------------------------------------ C39
\* The threads asking for the mutex of the shared accessibility state.
Requesting ==
    (IF lk.main.pc = "in_source" THEN {"main"} ELSE {})
    \cup (IF lk.cb = "waiting" THEN {"adapter"} ELSE {})

====
